---- MODULE Spec2Model ----
(***************************************************************************)
(* Dangling Container Checker (src/main.go).                               *)
(*                                                                         *)
(* The process runs main's loop: executeCheck, then a sleep.  One call of  *)
(* executeCheck (a "pass") starts five goroutines: two result collectors,  *)
(* a notifier, and the two fetchers getPodContainers and                   *)
(* getDockerContainers.  Channels are unbuffered, so a send and its        *)
(* receive are one joint step of the two goroutines.                       *)
(*                                                                         *)
(* Strings that the code searches (container identifiers, image names)     *)
(* are sequences of one-character strings, so that strings.Contains and    *)
(* strings.TrimPrefix are computed, not assumed.                           *)
(***************************************************************************)
EXTENDS Integers, Sequences, FiniteSets, TLC

\* ------------------------------------------------------------------ bounds

\* Number of passes of main's loop that are explored.
MaxPass == 2
\* Longest container list the runtime returns.
MaxContainers == 2
\* Longest pod list the orchestrator returns.
MaxPods == 2

\* ----------------------------------------------------------------- strings

\* strings.Contains(s, substr)
Contains(s, substr) ==
    \E i \in 0..(Len(s) - Len(substr)) : SubSeq(s, i + 1, i + Len(substr)) = substr

\* strings.HasPrefix(s, prefix)
HasPrefix(s, prefix) ==
    Len(s) >= Len(prefix) /\ SubSeq(s, 1, Len(prefix)) = prefix

\* strings.TrimPrefix(s, prefix)
TrimPrefix(s, prefix) ==
    IF HasPrefix(s, prefix) THEN SubSeq(s, Len(prefix) + 1, Len(s)) ELSE s

\* The literal "docker://" of getPodContainers.
DockerScheme == <<"d", "o", "c", "k", "e", "r", ":", "/", "/">>

\* --------------------------------------------------------- input universes

\* types.Container values the runtime may report (ID, Image, ImageID).
ContainerUniverse ==
    { [ID |-> <<"a", "b">>, Image |-> <<"n">>,      ImageID |-> "sha1"],
      [ID |-> <<"a">>,      Image |-> <<"g", "p">>, ImageID |-> "sha2"],
      [ID |-> <<"c">>,      Image |-> <<"n", "c">>, ImageID |-> "sha3"] }

\* Answers of the runtime's ContainerList: identifiers are unique in one answer.
Inventories ==
    { q \in UNION { [1..n -> ContainerUniverse] : n \in 0..MaxContainers } :
        \A i, j \in 1..Len(q) : i # j => q[i].ID # q[j].ID }

\* Pods the orchestrator may report: node name and the ContainerID of each
\* container status (a status of a container not yet started has none).
PodUniverse ==
    { [NodeName |-> "n1", ContainerIDs |-> << DockerScheme \o <<"a", "b">> >>],
      [NodeName |-> "n1", ContainerIDs |-> << <<"a">>, <<>> >>],
      [NodeName |-> "n2", ContainerIDs |-> << DockerScheme \o <<"c">> >>] }

\* Answers of the orchestrator's pod List: each pod is listed once.
PodLists ==
    { q \in UNION { [1..n -> PodUniverse] : n \in 0..MaxPods } :
        \A i, j \in 1..Len(q) : i # j => q[i] # q[j] }

\* The defaults of line 36, kept when config.yaml overrides nothing.
DefaultConfig ==
    [Timing |-> [CheckInterval |-> 90, StopTimeout |-> 30],
     Whitelist |-> [Images |-> <<>>]]

\* A config.yaml that sets the timing and a whitelist.
CustomConfig ==
    [Timing |-> [CheckInterval |-> 60, StopTimeout |-> 5],
     Whitelist |-> [Images |-> << <<"p">>, <<"x">> >>]]

\* What init() may leave behind: the -mode flag / MODE variable with the
\* loaded configuration.
Startups ==
    { [mode |-> "watch",  config |-> DefaultConfig],
      [mode |-> "remove", config |-> CustomConfig],
      [mode |-> "Remove", config |-> CustomConfig] }

Passes == 1..MaxPass


\* --------------------------------------------------------- pure functions

\* stringInSlice with the arguments of strings.Contains exchanged.
stringInSliceExchanged(a, list) ==
    \E i \in 1..Len(list) : Contains(a, list[i])

\* stringInSlice with the loop of lines 334-340 starting at the second
\* element of the list.
stringInSliceSkipFirst(a, list) ==
    \E i \in 2..Len(list) : Contains(list[i], a)

\* stringInSlice(a, list): the loop of lines 334-340 from index i on.
RECURSIVE stringInSliceFrom(_, _, _)
stringInSliceFrom(a, list, i) ==
    IF i > Len(list) THEN FALSE
    ELSE IF Contains(list[i], a) THEN TRUE
    ELSE stringInSliceFrom(a, list, i + 1)

stringInSlice(a, list) ==
    stringInSliceFrom(a, list, 1)

\* The loop of lines 129-136 with each orphan put in front of those found
\* before it.
RECURSIVE compareFromPrepending(_, _, _, _)
compareFromPrepending(dockerGroup, kubernetesGroup, i, orphansFound) ==
    IF i > Len(dockerGroup) THEN orphansFound
    ELSE compareFromPrepending(dockerGroup, kubernetesGroup, i + 1,
                               IF ~stringInSlice(dockerGroup[i].ID, kubernetesGroup)
                               THEN << dockerGroup[i] >> \o orphansFound
                               ELSE orphansFound)

\* compareContainerGroups: the loop of lines 129-136 from index i on, with
\* the orphans found so far.
RECURSIVE compareFrom(_, _, _, _)
compareFrom(dockerGroup, kubernetesGroup, i, orphansFound) ==
    IF i > Len(dockerGroup) THEN orphansFound
    ELSE compareFrom(dockerGroup, kubernetesGroup, i + 1,
                     IF ~stringInSlice(dockerGroup[i].ID, kubernetesGroup)
                     THEN Append(orphansFound, dockerGroup[i])
                     ELSE orphansFound)

\* compareContainerGroups with the two groups exchanged: it returns the
\* orchestrator identifiers that the runtime does not know.
compareExchanged(dockerGroup, kubernetesGroup) ==
    SelectSeq([j \in 1..Len(kubernetesGroup) |->
                  [ID |-> kubernetesGroup[j], Image |-> <<>>, ImageID |-> ""]],
              LAMBDA c : \A i \in 1..Len(dockerGroup) :
                             ~Contains(c.ID, dockerGroup[i].ID))

compareContainerGroups(dockerGroup, kubernetesGroup) ==
    compareFrom(dockerGroup, kubernetesGroup, 1, <<>>)

\* The inner loop of getDockerContainers (lines 230-236): remove is set when
\* some whitelist entry is contained in the image name.
RECURSIVE removeFlagFrom(_, _, _, _)
removeFlagFrom(image, images, k, remove) ==
    IF k > Len(images) THEN remove
    ELSE removeFlagFrom(image, images, k + 1,
                        IF Contains(image, images[k]) THEN TRUE ELSE remove)

\* The outer loop of getDockerContainers (lines 227-242).
RECURSIVE filterFrom(_, _, _, _)
filterFrom(containers, images, i, filtered) ==
    IF i > Len(containers) THEN filtered
    ELSE filterFrom(containers, images, i + 1,
                    IF ~removeFlagFrom(containers[i].Image, images, 1, FALSE)
                    THEN Append(filtered, containers[i])
                    ELSE filtered)

\* getDockerContainers without its whitelist loop.
filterNothing(containers, images) ==
    containers

filterWhitelist(containers, images) ==
    filterFrom(containers, images, 1, <<>>)

\* The status loop of lines 263-266 with a status that has no ContainerID
\* passed over.
RECURSIVE statusIDsSkipEmpty(_, _, _)
statusIDsSkipEmpty(statuses, j, ids) ==
    IF j > Len(statuses) THEN ids
    ELSE statusIDsSkipEmpty(statuses, j + 1,
                            IF statuses[j] = <<>> THEN ids
                            ELSE Append(ids, TrimPrefix(statuses[j], DockerScheme)))

\* The status loop of getPodContainers (lines 263-266).
RECURSIVE statusIDsFrom(_, _, _)
statusIDsFrom(statuses, j, ids) ==
    IF j > Len(statuses) THEN ids
    ELSE statusIDsFrom(statuses, j + 1,
                       Append(ids, TrimPrefix(statuses[j], DockerScheme)))

\* The pod loop of lines 257-270 without the test of the node name of
\* line 261.
RECURSIVE podIDsOfAllNodes(_, _, _, _)
podIDsOfAllNodes(items, node, i, ids) ==
    IF i > Len(items) THEN ids
    ELSE podIDsOfAllNodes(items, node, i + 1,
                          statusIDsFrom(items[i].ContainerIDs, 1, ids))

\* The pod loop of getPodContainers (lines 257-270).
RECURSIVE podIDsFrom(_, _, _, _)
podIDsFrom(items, node, i, ids) ==
    IF i > Len(items) THEN ids
    ELSE podIDsFrom(items, node, i + 1,
                    IF items[i].NodeName = node
                    THEN statusIDsFrom(items[i].ContainerIDs, 1, ids)
                    ELSE ids)

podContainerIDs(items, node) == podIDsFrom(items, node, 1, <<>>)

\* fmt.Sprintf("<text>%s (%s)", c.ID, c.ImageID): the text, the identifier's
\* characters, " (", the image identifier, ")".
Sprintf(text, c) == <<text>> \o c.ID \o <<" (", c.ImageID, ")">>

StoppedText == "Dangling container stopped: "
FoundText == "Dangling container found: "

\* The message removeOrReportOrphanContainers hands to the channel for c.
dispatchMessage(mode, c) ==
    IF mode = "remove" THEN Sprintf(StoppedText, c) ELSE Sprintf(FoundText, c)

\* The 30 seconds of the comment of lines 298-299, whatever is configured.
stopTimeoutFixed(cfg) ==
    DefaultConfig.Timing.StopTimeout

\* time.Duration(config.Timing.StopTimeout) * time.Second, in seconds.
stopTimeoutOf(cfg) ==
    cfg.Timing.StopTimeout

\* Line 314 testing for "not watch" instead of "remove".
stopsUnlessWatch(mode) ==
    mode # "watch"

\* The branch of line 314: whether the orphan is stopped.
stopsOrphans(mode) ==
    mode = "remove"


\* ------------------------------------------------------------------- state

VARIABLES
    modeFlag,               \* the -mode flag (line 35)
    config,                 \* the loaded configuration (line 36)
    nodeFlag,               \* the -node flag (line 33)
    wg,                     \* the counter of the process-wide WaitGroup (line 39)
    pass,                   \* number of calls of executeCheck made so far
    mainPc,                 \* where the main goroutine is
    idx,                    \* index of the orphan the dispatch loop is at
    k8sCollector,           \* per pass: the goroutine of lines 182-185
    dockerCollector,        \* per pass: the goroutine of lines 187-190
    notifier,               \* per pass: the goroutine of lines 192-197
    k8sFetcher,             \* per pass: the goroutine running getPodContainers
    dockerFetcher,          \* per pass: the goroutine running getDockerContainers
    podItems,               \* per pass: podList.Items of getPodContainers
    k8sErr,                 \* per pass: whether the pod List returned an error
    containerIDs,           \* per pass: containerIDs of getPodContainers
    containers,             \* per pass: containers of getDockerContainers
    dockerErr,              \* per pass: whether ContainerList returned an error
    filtered,               \* per pass: filtered of getDockerContainers
    kubernetesContainers,   \* per pass: the variable of line 177
    dockerContainers,       \* per pass: the variable of line 178
    orphans,                \* per pass: orphans of executeCheck
    stops,                  \* the ContainerStop calls the runtime got in this pass
    handed,                 \* the messages sent on the notification channel in this pass
    stopFailed,             \* whether the latest ContainerStop of this pass returned an error
    events,                 \* the events the notifier of this pass gave to the recorder
    sleeps                  \* the durations main has slept since executeCheck returned

vars == << modeFlag, config, nodeFlag, wg, pass, mainPc, idx,
           k8sCollector, dockerCollector, notifier, k8sFetcher, dockerFetcher,
           podItems, k8sErr, containerIDs, containers, dockerErr, filtered,
           kubernetesContainers, dockerContainers, orphans, stops, handed,
           stopFailed, events, sleeps >>

cfgVars == << modeFlag, config, nodeFlag >>
k8sLocals == << podItems, k8sErr, containerIDs >>
dockerLocals == << containers, dockerErr, filtered >>

\* A notifier blocked on its receive.
NotifierIdle == [pc |-> "recv", msg |-> <<>>]
NotifierNone == [pc |-> "none", msg |-> <<>>]

Init ==
    /\ \E s \in Startups : modeFlag = s.mode /\ config = s.config
    /\ nodeFlag = "n1"
    /\ wg = 0
    /\ pass = 0
    /\ mainPc = "loop"
    /\ idx = 1
    /\ k8sCollector = [p \in Passes |-> "none"]
    /\ dockerCollector = [p \in Passes |-> "none"]
    /\ notifier = [p \in Passes |-> NotifierNone]
    /\ k8sFetcher = [p \in Passes |-> "none"]
    /\ dockerFetcher = [p \in Passes |-> "none"]
    /\ podItems = [p \in Passes |-> <<>>]
    /\ k8sErr = [p \in Passes |-> FALSE]
    /\ containerIDs = [p \in Passes |-> <<>>]
    /\ containers = [p \in Passes |-> <<>>]
    /\ dockerErr = [p \in Passes |-> FALSE]
    /\ filtered = [p \in Passes |-> <<>>]
    /\ kubernetesContainers = [p \in Passes |-> <<>>]
    /\ dockerContainers = [p \in Passes |-> <<>>]
    /\ orphans = [p \in Passes |-> <<>>]
    /\ stops = <<>>
    /\ handed = <<>>
    /\ stopFailed = FALSE
    /\ events = <<>>
    /\ sleeps = <<>>

\* ----------------------------------------------------------- main goroutine

\* Line 349: time.Duration(config.Timing.CheckInterval) * time.Second, in
\* seconds.
sleepDuration(cfg) == cfg.Timing.CheckInterval

\* Where the dispatch loop of lines 312-327 goes for its next orphan.
dispatchPc(mode) == IF stopsOrphans(mode) THEN "stop" ELSE "send"

\* executeCheck with kubernetesContainers, dockerContainers and orphans
\* declared at package level: a call starts with what the call before it
\* left in them.
ExecuteCheckBeginKeepsLocals ==
    /\ mainPc = "loop"
    /\ pass < MaxPass
    /\ pass' = pass + 1
    /\ wg' = wg + 2
    /\ k8sCollector' = [k8sCollector EXCEPT ![pass'] = "recv"]
    /\ dockerCollector' = [dockerCollector EXCEPT ![pass'] = "recv"]
    /\ notifier' = [notifier EXCEPT ![pass'] = NotifierIdle]
    /\ podItems' = [p \in Passes |-> <<>>]
    /\ k8sErr' = [p \in Passes |-> FALSE]
    /\ containerIDs' = [p \in Passes |-> <<>>]
    /\ containers' = [p \in Passes |-> <<>>]
    /\ dockerErr' = [p \in Passes |-> FALSE]
    /\ filtered' = [p \in Passes |-> <<>>]
    /\ kubernetesContainers' =
          [p \in Passes |-> IF p = pass' /\ pass >= 1
                            THEN kubernetesContainers[pass] ELSE <<>>]
    /\ dockerContainers' =
          [p \in Passes |-> IF p = pass' /\ pass >= 1
                            THEN dockerContainers[pass] ELSE <<>>]
    /\ orphans' =
          [p \in Passes |-> IF p = pass' /\ pass >= 1 THEN orphans[pass] ELSE <<>>]
    /\ stops' = <<>>
    /\ handed' = <<>>
    /\ events' = <<>>
    /\ idx' = 1
    /\ k8sFetcher' = [k8sFetcher EXCEPT ![pass'] = "list"]
    /\ dockerFetcher' = [dockerFetcher EXCEPT ![pass'] = "list"]
    /\ stopFailed' = FALSE
    /\ sleeps' = <<>>
    /\ mainPc' = "wait"
    /\ UNCHANGED cfgVars

\* main calls executeCheck: lines 174-200.  The locals of the call are new
\* (those of earlier calls are dead and dropped here, as are the records of
\* what the runtime and the recorder were given in the earlier pass and of
\* the sleep that followed it), the
\* WaitGroup is raised by two, and the two collectors, the notifier and the
\* two fetchers are started.
ExecuteCheckBegin ==
    /\ mainPc = "loop"
    /\ pass < MaxPass
    /\ pass' = pass + 1
    /\ wg' = wg + 2
    /\ k8sCollector' = [k8sCollector EXCEPT ![pass'] = "recv"]
    /\ dockerCollector' = [dockerCollector EXCEPT ![pass'] = "recv"]
    /\ notifier' = [notifier EXCEPT ![pass'] = NotifierIdle]
    /\ podItems' = [p \in Passes |-> <<>>]
    /\ k8sErr' = [p \in Passes |-> FALSE]
    /\ containerIDs' = [p \in Passes |-> <<>>]
    /\ containers' = [p \in Passes |-> <<>>]
    /\ dockerErr' = [p \in Passes |-> FALSE]
    /\ filtered' = [p \in Passes |-> <<>>]
    /\ kubernetesContainers' = [p \in Passes |-> <<>>]
    /\ dockerContainers' = [p \in Passes |-> <<>>]
    /\ orphans' = [p \in Passes |-> <<>>]
    /\ stops' = <<>>
    /\ handed' = <<>>
    /\ events' = <<>>
    /\ idx' = 1
    /\ k8sFetcher' = [k8sFetcher EXCEPT ![pass'] = "list"]
    /\ dockerFetcher' = [dockerFetcher EXCEPT ![pass'] = "list"]
    /\ stopFailed' = FALSE
    /\ sleeps' = <<>>
    /\ mainPc' = "wait"
    /\ UNCHANGED cfgVars

\* executeCheck without the wg.Wait() of line 201.
WgWaitMissing ==
    /\ mainPc = "wait"
    /\ mainPc' = "compare"
    /\ UNCHANGED << cfgVars, wg, pass, idx, k8sCollector, dockerCollector, notifier,
                    k8sFetcher, dockerFetcher, k8sLocals, dockerLocals,
                    kubernetesContainers, dockerContainers, orphans, stops, handed,
                    events, stopFailed, sleeps >>

\* Line 201: wg.Wait() returns when the counter is zero.
WgWait ==
    /\ mainPc = "wait"
    /\ wg = 0
    /\ mainPc' = "compare"
    /\ UNCHANGED << cfgVars, wg, pass, idx, k8sCollector, dockerCollector, notifier,
                    k8sFetcher, dockerFetcher, k8sLocals, dockerLocals,
                    kubernetesContainers, dockerContainers, orphans, stops, handed,
                    events, stopFailed, sleeps >>

\* Lines 203-209 with main going straight back to executeCheck, without the
\* sleep of line 349, when no orphan was found.
CompareNoSleepWhenEmpty ==
    /\ mainPc = "compare"
    /\ LET found == compareContainerGroups(dockerContainers[pass],
                                           kubernetesContainers[pass])
       IN  /\ orphans' = [orphans EXCEPT ![pass] = found]
           /\ mainPc' = IF Len(found) > 0 THEN dispatchPc(modeFlag) ELSE "loop"
    /\ idx' = 1
    /\ UNCHANGED << cfgVars, wg, pass, k8sCollector, dockerCollector, notifier,
                    k8sFetcher, dockerFetcher, k8sLocals, dockerLocals,
                    kubernetesContainers, dockerContainers, stops, handed, events,
                    stopFailed, sleeps >>

\* Lines 203-209 with a guard that takes an empty orchestrator list for a
\* failed fetch and reports no orphan then.
CompareSkipOnEmptyOrchestrator ==
    /\ mainPc = "compare"
    /\ LET found == IF kubernetesContainers[pass] = <<>> THEN <<>>
                    ELSE compareContainerGroups(dockerContainers[pass],
                                                kubernetesContainers[pass])
       IN  /\ orphans' = [orphans EXCEPT ![pass] = found]
           /\ mainPc' = IF Len(found) > 0 THEN dispatchPc(modeFlag) ELSE "sleep"
    /\ idx' = 1
    /\ UNCHANGED << cfgVars, wg, pass, k8sCollector, dockerCollector, notifier,
                    k8sFetcher, dockerFetcher, k8sLocals, dockerLocals,
                    kubernetesContainers, dockerContainers, stops, handed, events,
                    stopFailed, sleeps >>

\* Lines 203-209 and, when there are orphans, lines 303-312: the comparison,
\* then either the entry of the dispatch loop or the "No orphaned containers
\* found." log and the return to main.
Compare ==
    /\ mainPc = "compare"
    /\ LET found == compareContainerGroups(dockerContainers[pass],
                                           kubernetesContainers[pass])
       IN  /\ orphans' = [orphans EXCEPT ![pass] = found]
           /\ mainPc' = IF Len(found) > 0 THEN dispatchPc(modeFlag) ELSE "sleep"
    /\ idx' = 1
    /\ UNCHANGED << cfgVars, wg, pass, k8sCollector, dockerCollector, notifier,
                    k8sFetcher, dockerFetcher, k8sLocals, dockerLocals,
                    kubernetesContainers, dockerContainers, stops, handed, events,
                    stopFailed, sleeps >>

\* Line 317 followed by a "continue" when ContainerStop returns an error.
ContainerStopSkipOnError ==
    /\ mainPc = "stop"
    /\ stops' = Append(stops, [ID |-> orphans[pass][idx].ID,
                               timeout |-> stopTimeoutOf(config)])
    /\ stopFailed' \in BOOLEAN
    /\ idx' = IF stopFailed' THEN idx + 1 ELSE idx
    /\ mainPc' = IF ~stopFailed' THEN "send"
                 ELSE IF idx' > Len(orphans[pass]) THEN "sleep"
                 ELSE "stop"
    /\ UNCHANGED << cfgVars, wg, pass, k8sCollector, dockerCollector, notifier,
                    k8sFetcher, dockerFetcher, k8sLocals, dockerLocals,
                    kubernetesContainers, dockerContainers, orphans, handed, events,
                    sleeps >>

\* Line 317: cli.ContainerStop(ctx, c.ID, &stopTimeout); the error it
\* returns is dropped.
ContainerStop ==
    /\ mainPc = "stop"
    /\ stops' = Append(stops, [ID |-> orphans[pass][idx].ID,
                               timeout |-> stopTimeoutOf(config)])
    /\ stopFailed' \in BOOLEAN
    /\ mainPc' = "send"
    /\ UNCHANGED << cfgVars, wg, pass, idx, k8sCollector, dockerCollector, notifier,
                    k8sFetcher, dockerFetcher, k8sLocals, dockerLocals,
                    kubernetesContainers, dockerContainers, orphans, handed, events,
                    sleeps >>

\* Lines 318 / 323 with line 194: the send on the pass's notification channel
\* meets the receive of the pass's notifier; the loop goes on to the next
\* orphan, or the call returns to main.
SendMessage ==
    /\ mainPc = "send"
    /\ notifier[pass].pc = "recv"
    /\ LET msg == dispatchMessage(modeFlag, orphans[pass][idx])
       IN  /\ notifier' = [notifier EXCEPT ![pass] = [pc |-> "publish", msg |-> msg]]
           /\ handed' = Append(handed, msg)
    /\ idx' = idx + 1
    /\ mainPc' = IF idx' > Len(orphans[pass]) THEN "sleep" ELSE dispatchPc(modeFlag)
    /\ UNCHANGED << cfgVars, wg, pass, k8sCollector, dockerCollector, k8sFetcher,
                    dockerFetcher, k8sLocals, dockerLocals, kubernetesContainers,
                    dockerContainers, orphans, stops, events, stopFailed, sleeps >>

\* Line 349: time.Sleep for check_interval seconds; main's loop then starts
\* over.
Sleep ==
    /\ mainPc = "sleep"
    /\ sleeps' = Append(sleeps, sleepDuration(config))
    /\ mainPc' = "loop"
    /\ UNCHANGED << cfgVars, wg, pass, idx, k8sCollector, dockerCollector, notifier,
                    k8sFetcher, dockerFetcher, k8sLocals, dockerLocals,
                    kubernetesContainers, dockerContainers, orphans, stops, handed,
                    events, stopFailed >>

\* ----------------------------------------------------------------- fetchers

\* getPodContainers, lines 251-270: the pod List returns (an error leaves no
\* items) and the identifiers of the pods of this node are gathered.
K8sList(p) ==
    /\ k8sFetcher[p] = "list"
    /\ \E err \in BOOLEAN, items \in PodLists :
          /\ err => items = <<>>
          /\ podItems' = [podItems EXCEPT ![p] = items]
          /\ k8sErr' = [k8sErr EXCEPT ![p] = err]
          /\ containerIDs' = [containerIDs EXCEPT ![p] = podContainerIDs(items, nodeFlag)]
    /\ k8sFetcher' = [k8sFetcher EXCEPT ![p] = "send"]
    /\ UNCHANGED << cfgVars, wg, pass, mainPc, idx, k8sCollector, dockerCollector,
                    notifier, dockerFetcher, dockerLocals, kubernetesContainers,
                    dockerContainers, orphans, stops, handed, events, stopFailed,
                    sleeps >>

\* The pod List of line 251 never returns (the call has no timeout).
K8sHang(p) ==
    /\ k8sFetcher[p] = "list"
    /\ k8sFetcher' = [k8sFetcher EXCEPT ![p] = "hung"]
    /\ UNCHANGED << cfgVars, wg, pass, mainPc, idx, k8sCollector, dockerCollector,
                    notifier, dockerFetcher, k8sLocals, dockerLocals,
                    kubernetesContainers, dockerContainers, orphans, stops, handed,
                    events, stopFailed, sleeps >>

\* Line 272 with line 183: the send on k8sChannel meets the collector's receive.
K8sDeliver(p) ==
    /\ k8sFetcher[p] = "send"
    /\ k8sCollector[p] = "recv"
    /\ kubernetesContainers' = [kubernetesContainers EXCEPT ![p] = containerIDs[p]]
    /\ k8sFetcher' = [k8sFetcher EXCEPT ![p] = "exit"]
    /\ k8sCollector' = [k8sCollector EXCEPT ![p] = "done"]
    /\ UNCHANGED << cfgVars, wg, pass, mainPc, idx, dockerCollector, notifier,
                    dockerFetcher, k8sLocals, dockerLocals, dockerContainers,
                    orphans, stops, handed, events, stopFailed, sleeps >>

\* Line 184: wg.Done().
K8sCollectorDone(p) ==
    /\ k8sCollector[p] = "done"
    /\ wg' = wg - 1
    /\ k8sCollector' = [k8sCollector EXCEPT ![p] = "exit"]
    /\ UNCHANGED << cfgVars, pass, mainPc, idx, dockerCollector, notifier,
                    k8sFetcher, dockerFetcher, k8sLocals, dockerLocals,
                    kubernetesContainers, dockerContainers, orphans, stops, handed,
                    events, stopFailed, sleeps >>

\* getDockerContainers with a "return" after the log of line 224: on an
\* error nothing is sent on the channel.
DockerListReturnOnError(p) ==
    /\ dockerFetcher[p] = "list"
    /\ \E err \in BOOLEAN, answer \in Inventories :
          /\ err => answer = <<>>
          /\ containers' = [containers EXCEPT ![p] = answer]
          /\ dockerErr' = [dockerErr EXCEPT ![p] = err]
          /\ filtered' = [filtered EXCEPT ![p] =
                             filterWhitelist(answer, config.Whitelist.Images)]
          /\ dockerFetcher' = [dockerFetcher EXCEPT ![p] = IF err THEN "exit" ELSE "send"]
    /\ UNCHANGED << cfgVars, wg, pass, mainPc, idx, k8sCollector, dockerCollector,
                    notifier, k8sFetcher, k8sLocals, kubernetesContainers,
                    dockerContainers, orphans, stops, handed, events, stopFailed,
                    sleeps >>

\* getDockerContainers, lines 215-242: the client is made (an error of
\* NewEnvClient is only logged; the client is taken to exist), ContainerList
\* returns (an error leaves no containers) and the whitelisted images are
\* removed.
DockerList(p) ==
    /\ dockerFetcher[p] = "list"
    /\ \E err \in BOOLEAN, answer \in Inventories :
          /\ err => answer = <<>>
          /\ containers' = [containers EXCEPT ![p] = answer]
          /\ dockerErr' = [dockerErr EXCEPT ![p] = err]
          /\ filtered' = [filtered EXCEPT ![p] =
                             filterWhitelist(answer, config.Whitelist.Images)]
    /\ dockerFetcher' = [dockerFetcher EXCEPT ![p] = "send"]
    /\ UNCHANGED << cfgVars, wg, pass, mainPc, idx, k8sCollector, dockerCollector,
                    notifier, k8sFetcher, k8sLocals, kubernetesContainers,
                    dockerContainers, orphans, stops, handed, events, stopFailed,
                    sleeps >>

\* The ContainerList of line 221 never returns (the call has no timeout).
DockerHang(p) ==
    /\ dockerFetcher[p] = "list"
    /\ dockerFetcher' = [dockerFetcher EXCEPT ![p] = "hung"]
    /\ UNCHANGED << cfgVars, wg, pass, mainPc, idx, k8sCollector, dockerCollector,
                    notifier, k8sFetcher, k8sLocals, dockerLocals,
                    kubernetesContainers, dockerContainers, orphans, stops, handed,
                    events, stopFailed, sleeps >>

\* Line 244 with line 188: the send on dockerChannel meets the collector's receive.
DockerDeliver(p) ==
    /\ dockerFetcher[p] = "send"
    /\ dockerCollector[p] = "recv"
    /\ dockerContainers' = [dockerContainers EXCEPT ![p] = filtered[p]]
    /\ dockerFetcher' = [dockerFetcher EXCEPT ![p] = "exit"]
    /\ dockerCollector' = [dockerCollector EXCEPT ![p] = "done"]
    /\ UNCHANGED << cfgVars, wg, pass, mainPc, idx, k8sCollector, notifier,
                    k8sFetcher, k8sLocals, dockerLocals, kubernetesContainers,
                    orphans, stops, handed, events, stopFailed, sleeps >>

\* The collector of lines 187-190 without its wg.Done().
DockerCollectorNoDone(p) ==
    /\ dockerCollector[p] = "done"
    /\ dockerCollector' = [dockerCollector EXCEPT ![p] = "exit"]
    /\ UNCHANGED << cfgVars, wg, pass, mainPc, idx, k8sCollector, notifier,
                    k8sFetcher, dockerFetcher, k8sLocals, dockerLocals,
                    kubernetesContainers, dockerContainers, orphans, stops, handed,
                    events, stopFailed, sleeps >>

\* Line 189: wg.Done().
DockerCollectorDone(p) ==
    /\ dockerCollector[p] = "done"
    /\ wg' = wg - 1
    /\ dockerCollector' = [dockerCollector EXCEPT ![p] = "exit"]
    /\ UNCHANGED << cfgVars, pass, mainPc, idx, k8sCollector, notifier, k8sFetcher,
                    dockerFetcher, k8sLocals, dockerLocals, kubernetesContainers,
                    dockerContainers, orphans, stops, handed, events, stopFailed,
                    sleeps >>

\* ----------------------------------------------------------------- notifier

\* sendEvent with corev1.EventTypeNormal in the place of EventTypeWarning.
eventOfNormal(reason, msg, node) ==
    [type |-> "Normal", reason |-> reason, message |-> msg, host |-> node]

\* sendEvent (lines 277-279): a warning event on the node, with the reason
\* and the message given.
eventOf(reason, msg, node) ==
    [type |-> "Warning", reason |-> reason, message |-> msg, host |-> node]

\* Line 195: sendEvent("DanglingContainer", msg); the notifier then loops
\* back to its receive.  Only the events of the current pass's notifier are
\* kept in the record.
SendEvent(p) ==
    /\ notifier[p].pc = "publish"
    /\ events' = IF p = pass
                 THEN Append(events, eventOf("DanglingContainer", notifier[p].msg, nodeFlag))
                 ELSE events
    /\ notifier' = [notifier EXCEPT ![p] = NotifierIdle]
    /\ UNCHANGED << cfgVars, wg, pass, mainPc, idx, k8sCollector, dockerCollector,
                    k8sFetcher, dockerFetcher, k8sLocals, dockerLocals,
                    kubernetesContainers, dockerContainers, orphans, stops, handed,
                    stopFailed, sleeps >>

\* ----------------------------------------------------------- specification

Next ==
    \/ ExecuteCheckBegin
    \/ WgWait
    \/ Compare
    \/ ContainerStop
    \/ SendMessage
    \/ Sleep
    \/ \E p \in Passes : K8sList(p)
    \/ \E p \in Passes : K8sHang(p)
    \/ \E p \in Passes : K8sDeliver(p)
    \/ \E p \in Passes : K8sCollectorDone(p)
    \/ \E p \in Passes : DockerList(p)
    \/ \E p \in Passes : DockerHang(p)
    \/ \E p \in Passes : DockerDeliver(p)
    \/ \E p \in Passes : DockerCollectorDone(p)
    \/ \E p \in Passes : SendEvent(p)

Spec == Init /\ [][Next]_vars



\* ------------------------------------------------------------------ claims

\* The elements of a sequence.
Range(q) == { q[i] : i \in 1..Len(q) }

\* The comparison of the current pass has been made.
Compared == pass >= 1 /\ mainPc \in {"stop", "send", "sleep", "loop"}

\* The current call of executeCheck has returned.
PassDone == pass >= 1 /\ mainPc \in {"sleep", "loop"}

\* The image name contains some whitelist entry.
Whitelisted(c) == \E w \in Range(config.Whitelist.Images) : Contains(c.Image, w)

\* C1 as stated: a runtime container is an orphan exactly when no
\* orchestrator identifier is a substring of the container's identifier.
C1_OrchestratorIdInsideRuntimeId ==
    Compared =>
        \A c \in Range(dockerContainers[pass]) :
            c \in Range(orphans[pass])
                <=> ~\E k \in Range(kubernetesContainers[pass]) : Contains(c.ID, k)

\* C1 amended: a runtime container is an orphan exactly when its identifier
\* is a substring of no orchestrator identifier (the runtime identifier inside
\* the orchestrator identifier); so when every runtime identifier is inside
\* some orchestrator identifier there is no orphan.
C1_RuntimeIdInsideOrchestratorId ==
    Compared =>
        /\ Range(orphans[pass]) \subseteq Range(dockerContainers[pass])
        /\ \A c \in Range(dockerContainers[pass]) :
              c \in Range(orphans[pass])
                  <=> ~\E k \in Range(kubernetesContainers[pass]) : Contains(k, c.ID)
        /\ (\A c \in Range(dockerContainers[pass]) :
               \E k \in Range(kubernetesContainers[pass]) : Contains(k, c.ID))
              => orphans[pass] = <<>>

\* C1 witness: a comparison in which one container is matched by a longer
\* orchestrator identifier and another is an orphan although an orchestrator
\* identifier is a substring of its identifier.
C1_Witness ==
    /\ Compared
    /\ \E c \in Range(dockerContainers[pass]) :
          /\ c \notin Range(orphans[pass])
          /\ \E k \in Range(kubernetesContainers[pass]) : k # c.ID /\ Contains(k, c.ID)
    /\ \E c \in Range(orphans[pass]) :
          \E k \in Range(kubernetesContainers[pass]) : Contains(c.ID, k)

\* C2: every container that is stopped or reported in a pass is a container
\* of that pass's runtime answer whose image contains no whitelist entry,
\* and so is every orphan.
C2_DispatchedAreUnlistedRuntimeContainers ==
    pass >= 1 =>
        LET eligible == { c \in Range(containers[pass]) : ~Whitelisted(c) }
        IN  /\ Range(orphans[pass]) \subseteq eligible
            /\ \A i \in 1..Len(stops) : \E c \in eligible : stops[i].ID = c.ID
            /\ \A i \in 1..Len(handed) :
                  \E c \in eligible : handed[i] = dispatchMessage(modeFlag, c)

\* C2 witness: the runtime reported a whitelisted and another container, the
\* orchestrator named none, and the pass has reported.
C2_Witness ==
    /\ PassDone
    /\ kubernetesContainers[pass] = <<>>
    /\ \E c \in Range(containers[pass]) : Whitelisted(c)
    /\ handed # <<>>

\* C3: unless the mode is exactly "remove", no ContainerStop call is ever
\* made and the dispatch loop is never at one: the orphans are only reported,
\* as "Dangling container found: <id> (<image-id>)".
C3_StopOnlyInRemoveMode ==
    modeFlag # "remove" =>
        /\ stops = <<>>
        /\ mainPc # "stop"
        /\ pass >= 1 =>
              /\ Len(handed) <= Len(orphans[pass])
              /\ \A i \in 1..Len(handed) :
                    handed[i] = Sprintf(FoundText, orphans[pass][i])
              /\ PassDone => Len(handed) = Len(orphans[pass])

\* C3 witness: two orphans have been reported in a mode other than "remove".
C3_Witness ==
    /\ modeFlag \in {"watch", "Remove"}
    /\ PassDone
    /\ Len(orphans[pass]) = 2
    /\ Len(handed) = 2

Progress ==
    \/ ExecuteCheckBegin \/ WgWait \/ Compare \/ ContainerStop \/ SendMessage \/ Sleep
    \/ \E p \in Passes :
          \/ K8sList(p) \/ K8sDeliver(p) \/ K8sCollectorDone(p)
          \/ DockerList(p) \/ DockerDeliver(p) \/ DockerCollectorDone(p)
          \/ SendEvent(p)

\* The least the Go scheduler gives: while some goroutine can take a step,
\* one of them does.  A backend call that may return is not thereby made to
\* return: K8sHang and DockerHang stay possible.
FairSpec == Spec /\ WF_vars(Progress)

\* A backend call of pass p never returns.
Hung(p) == k8sFetcher[p] = "hung" \/ dockerFetcher[p] = "hung"

\* C5: once the main goroutine is past wg.Wait, both fetchers of the pass have
\* sent, both collectors have stored what was sent and have finished; and
\* while a fetch call of a pass hangs, the main goroutine is still before the
\* comparison of that same pass.
C5_JoinBarrier ==
    /\ (pass >= 1 /\ mainPc \in {"compare", "stop", "send", "sleep", "loop"}) =>
          /\ k8sFetcher[pass] = "exit" /\ dockerFetcher[pass] = "exit"
          /\ k8sCollector[pass] = "exit" /\ dockerCollector[pass] = "exit"
          /\ kubernetesContainers[pass] = podContainerIDs(podItems[pass], nodeFlag)
          /\ dockerContainers[pass] = filtered[pass]
    /\ \A p \in Passes :
          Hung(p) => pass = p /\ mainPc = "wait"

\* C5 witness: the second pass is at its comparison, with a result from each
\* fetcher.
C5_Witness ==
    /\ pass = 2
    /\ mainPc = "compare"
    /\ dockerContainers[pass] # <<>>
    /\ kubernetesContainers[pass] # <<>>

\* C6 as stated: once a pass has started, no goroutine of an earlier pass is
\* running or pending.
C6_NoActivityOfEarlierPasses ==
    \A p \in Passes :
        p < pass =>
            /\ k8sFetcher[p] \in {"none", "exit"}
            /\ dockerFetcher[p] \in {"none", "exit"}
            /\ k8sCollector[p] \in {"none", "exit"}
            /\ dockerCollector[p] \in {"none", "exit"}
            /\ notifier[p].pc = "none"

\* C7 as stated: at most one notifier goroutine is alive.
C7_SingleNotifier ==
    Cardinality({ p \in Passes : notifier[p].pc # "none" }) <= 1

\* C8: when ContainerList failed in a pass, the inventory sent and compared is
\* empty, there is no orphan, and nothing is stopped or reported in the pass.
C8_RuntimeFailureMeansNoAction ==
    \A p \in Passes :
        (p = pass /\ dockerErr[p]) =>
            /\ filtered[p] = <<>>
            /\ dockerContainers[p] = <<>>
            /\ orphans[p] = <<>>
            /\ stops = <<>>
            /\ handed = <<>>
            /\ mainPc \notin {"stop", "send"}

\* C8 witness: a pass is over in which ContainerList failed and the
\* orchestrator named containers.
C8_Witness ==
    /\ PassDone
    /\ dockerErr[pass]
    /\ kubernetesContainers[pass] # <<>>

\* C9: unless a backend call of the pass hangs, every pass that has started
\* reaches its sleep, whatever failed in it, and after the sleep the next pass
\* starts (up to the last pass explored).
C9_PassesKeepComing ==
    /\ (mainPc = "wait") ~> ((pass >= 1 /\ Hung(pass)) \/ mainPc = "sleep")
    /\ (mainPc = "sleep" /\ pass < MaxPass) ~> (mainPc = "wait")

\* C9 witness: the second pass is over, the pod List failed in it and so did
\* its last ContainerStop.
C9_Witness ==
    /\ pass = 2
    /\ mainPc = "sleep"
    /\ k8sErr[pass]
    /\ stops # <<>>
    /\ stopFailed

\* C10: in "remove" mode the messages handed over in a pass are, in order,
\* "Dangling container stopped: <id> (<image-id>)" for the orphans dispatched
\* so far, one for every ContainerStop call made whatever its result, and one
\* for each orphan when the pass is over.
C10_StoppedMessagePerOrphan ==
    (pass >= 1 /\ modeFlag = "remove") =>
        /\ Len(handed) <= Len(orphans[pass])
        /\ \A i \in 1..Len(handed) :
              handed[i] = <<"Dangling container stopped: ">> \o orphans[pass][i].ID
                             \o <<" (", orphans[pass][i].ImageID, ")">>
        /\ Len(handed) = IF mainPc = "send" THEN Len(stops) - 1 ELSE Len(stops)
        /\ PassDone => Len(handed) = Len(orphans[pass])

\* C10 witness: in "remove" mode the ContainerStop of the first orphan
\* failed, its message was handed over and the second orphan has been stopped.
C10_Witness ==
    /\ modeFlag = "remove"
    /\ mainPc = "send"
    /\ idx = 2
    /\ Len(stops) = 2
    /\ Len(handed) = 1
    /\ \E c \in Range(orphans[pass]) : handed[1] = Sprintf(StoppedText, c)

\* C11: the main goroutine only ever moves loop -> wait -> compare ->
\* (stop, send)* -> sleep -> loop; a pass with no orphan goes from the
\* comparison to the sleep with nothing stopped or handed over; a new pass
\* starts only from the loop, and after the first only when exactly one sleep
\* of check_interval seconds has been made since the earlier pass; and every
\* pass that reaches its comparison gets to that one sleep.
C11_PassCycle ==
    /\ [][ /\ mainPc' # mainPc =>
                \/ mainPc = "loop" /\ mainPc' = "wait" /\ pass' = pass + 1
                \/ mainPc = "wait" /\ mainPc' = "compare"
                \/ /\ mainPc = "compare" /\ orphans'[pass] # <<>>
                   /\ mainPc' \in {"stop", "send"}
                \/ /\ mainPc = "compare" /\ orphans'[pass] = <<>>
                   /\ mainPc' = "sleep" /\ stops' = <<>> /\ handed' = <<>>
                \/ mainPc = "stop" /\ mainPc' = "send"
                \/ mainPc = "send" /\ mainPc' \in {"stop", "sleep"}
                \/ /\ mainPc = "sleep" /\ mainPc' = "loop"
                   /\ sleeps' = << config.Timing.CheckInterval >>
                   /\ orphans[pass] = <<>> => stops = <<>> /\ handed = <<>>
           /\ pass' # pass =>
                /\ mainPc = "loop"
                /\ pass >= 1 => sleeps = << config.Timing.CheckInterval >>
           /\ sleeps' # sleeps => mainPc = "sleep" \/ pass' # pass
         ]_vars
    /\ (mainPc = "compare")
          ~> (mainPc = "loop" /\ sleeps = << config.Timing.CheckInterval >>)

\* C11 witness: the second pass found no orphan among the containers of the
\* runtime and main has slept a check_interval other than the default.
C11_Witness ==
    /\ pass = 2
    /\ mainPc = "loop"
    /\ dockerContainers[pass] # <<>>
    /\ orphans[pass] = <<>>
    /\ handed = <<>>
    /\ config.Timing.CheckInterval # DefaultConfig.Timing.CheckInterval
    /\ sleeps = << config.Timing.CheckInterval >>

\* A step of some goroutine other than a backend call hanging and other than
\* a call of kubeRecorder.Event returning.
ProgressButPublication ==
    \/ ExecuteCheckBegin \/ WgWait \/ Compare \/ ContainerStop \/ SendMessage \/ Sleep
    \/ \E p \in Passes :
          \/ K8sList(p) \/ K8sDeliver(p) \/ K8sCollectorDone(p)
          \/ DockerList(p) \/ DockerDeliver(p) \/ DockerCollectorDone(p)

\* The scheduling of FairSpec when the publication of an event may take
\* for ever: every goroutine that can take a step does, but a notifier inside
\* sendEvent (line 195) need not come back from it.
StalledPublicationSpec == Spec /\ WF_vars(ProgressButPublication)

\* C12 as stated: even when the publication of an event never returns, the
\* dispatch loop, once entered, handles every orphan of the pass and
\* executeCheck returns (main reaches its sleep).
C12_DispatchEndsWhateverPublication ==
    (mainPc \in {"stop", "send"}) ~> (mainPc = "sleep")

\* The ContainerID fields, as reported, of the container statuses of the pods
\* of a node, in pod then status order.
RECURSIVE StatusesOf(_, _)
StatusesOf(items, node) ==
    IF items = <<>> THEN <<>>
    ELSE (IF Head(items).NodeName = node THEN Head(items).ContainerIDs ELSE <<>>)
             \o StatusesOf(Tail(items), node)

\* C13 as stated: a container status without a container identifier is
\* skipped: the identifier list of the fetcher has one entry for each status
\* that has an identifier, and no empty entry.
C13_MalformedStatusSkipped ==
    pass >= 1 =>
        LET raw == StatusesOf(podItems[pass], nodeFlag)
        IN  /\ Len(containerIDs[pass]) = Len(SelectSeq(raw, LAMBDA r : r # <<>>))
            /\ \A i \in 1..Len(containerIDs[pass]) : containerIDs[pass][i] # <<>>
            /\ \A i \in 1..Len(kubernetesContainers[pass]) :
                  kubernetesContainers[pass][i] # <<>>

\* C13 amended: a container status without a container identifier is not
\* skipped and does not end the fetch: it puts the empty identifier in the
\* list, at its place; and the orphans of the pass are those the comparison
\* finds with the empty identifiers taken out of the list.
C13_EmptyIdentifierKeptAndHarmless ==
    pass >= 1 =>
        LET raw == StatusesOf(podItems[pass], nodeFlag)
        IN  /\ Len(containerIDs[pass]) = Len(raw)
            /\ \A i \in 1..Len(raw) : raw[i] = <<>> => containerIDs[pass][i] = <<>>
            /\ Compared =>
                  orphans[pass] =
                      compareContainerGroups(dockerContainers[pass],
                          SelectSeq(kubernetesContainers[pass], LAMBDA k : k # <<>>))

\* C13 witness: the orchestrator list compared has an empty identifier, and
\* of the containers of the runtime some are orphans and some are not.
C13_Witness ==
    /\ Compared
    /\ <<>> \in Range(kubernetesContainers[pass])
    /\ orphans[pass] # <<>>
    /\ Len(orphans[pass]) < Len(dockerContainers[pass])

\* C14: the identifier list the fetcher sends, and the collector stores, has
\* one entry for each container status of each pod whose node name is the
\* -node flag, in pod then status order; the entry is the ContainerID
\* reported with a leading "docker://" taken off; the pods of other nodes
\* add nothing.
C14_OneIdentifierPerStatusOfThisNode ==
    pass >= 1 =>
        LET raw == StatusesOf(podItems[pass], nodeFlag)
            ids == containerIDs[pass]
            n   == Len(DockerScheme)
        IN  /\ Len(ids) = Len(raw)
            /\ \A i \in 1..Len(raw) :
                  IF Len(raw[i]) >= n /\ SubSeq(raw[i], 1, n) = DockerScheme
                  THEN raw[i] = DockerScheme \o ids[i]
                  ELSE ids[i] = raw[i]
            /\ (\A i \in 1..Len(podItems[pass]) : podItems[pass][i].NodeName # nodeFlag)
                  => ids = <<>>
            /\ k8sCollector[pass] \in {"done", "exit"}
                  => kubernetesContainers[pass] = ids

\* C14 witness: the pod List returned a pod of another node and a pod of this
\* node whose status has an identifier with the "docker://" prefix, and the
\* list sent has been stored.
C14_Witness ==
    /\ pass >= 1
    /\ k8sCollector[pass] = "exit"
    /\ \E i \in 1..Len(podItems[pass]) : podItems[pass][i].NodeName # nodeFlag
    /\ \E i \in 1..Len(podItems[pass]) :
          /\ podItems[pass][i].NodeName = nodeFlag
          /\ Contains(podItems[pass][i].ContainerIDs[1], DockerScheme)
    /\ Len(kubernetesContainers[pass]) = 1

\* C15: the orphan list of a pass is fixed by the two inventories alone: in
\* every pass it is the runtime inventory with the containers taken out whose
\* identifier lies inside some orchestrator identifier; its containers come
\* in the order they have in the runtime inventory, none twice; and the two
\* inventories are still what the fetchers sent.
C15_OrphansAreSubsequenceInFetchOrder ==
    Compared =>
        LET R == dockerContainers[pass]
            K == kubernetesContainers[pass]
            O == orphans[pass]
            pos(c) == CHOOSE i \in 1..Len(R) : R[i] = c
        IN  /\ O = SelectSeq(R, LAMBDA c : \A j \in 1..Len(K) : ~Contains(K[j], c.ID))
            /\ \A i \in 1..Len(O) : O[i] \in Range(R)
            /\ \A i, j \in 1..Len(O) : i < j => pos(O[i]) < pos(O[j])
            /\ R = filtered[pass]
            /\ K = containerIDs[pass]

\* C15 witness: the second pass has compared and found two orphans.
C15_Witness ==
    /\ pass = 2
    /\ Compared
    /\ Len(orphans[pass]) = 2
    /\ kubernetesContainers[pass] # <<>>

\* Identifier a is a substring of b, or b of a, and the two differ.
PartialMatch(a, b) == a # b /\ (Contains(a, b) \/ Contains(b, a))

\* C16: when every runtime identifier either equals an orchestrator
\* identifier or is in no substring relation with any, the orphans are, in
\* order, the runtime containers whose identifier is not in the orchestrator
\* list; so with an empty orchestrator list every container the whitelist
\* lets through is an orphan, and a container whose identifier is in the list
\* is none.
C16_ExactIdentifierScenarios ==
    Compared =>
        LET R == dockerContainers[pass]
            K == kubernetesContainers[pass]
        IN  (\A c \in Range(R), k \in Range(K) : ~PartialMatch(c.ID, k)) =>
                /\ orphans[pass] = SelectSeq(R, LAMBDA c : c.ID \notin Range(K))
                /\ K = <<>> =>
                      /\ orphans[pass] = R
                      /\ \A c \in Range(containers[pass]) :
                            ~Whitelisted(c) => c \in Range(orphans[pass])
                /\ \A c \in Range(R) : c.ID \in Range(K) => c \notin Range(orphans[pass])

\* C16 witness (scenario D): two runtime containers, the identifier of the
\* first is the one orchestrator identifier, the second is the one orphan.
C16_Witness ==
    /\ Compared
    /\ Len(dockerContainers[pass]) = 2
    /\ kubernetesContainers[pass] = << dockerContainers[pass][1].ID >>
    /\ ~PartialMatch(dockerContainers[pass][2].ID, dockerContainers[pass][1].ID)
    /\ orphans[pass] = << dockerContainers[pass][2] >>

\* C17: in every pass the two inventories start empty and are set once, by
\* the collector of the pass, to what the fetcher of the same pass gathered
\* in that pass; the orphans are found from these and only they are handed
\* to the notifier of the pass; and while a pass runs, the fetchers and
\* collectors of every other pass have ended, so that nothing of theirs can
\* arrive later.
C17_InventoriesFreshPerPass ==
    /\ [](pass >= 1 =>
            /\ k8sCollector[pass] = "recv" => kubernetesContainers[pass] = <<>>
            /\ dockerCollector[pass] = "recv" => dockerContainers[pass] = <<>>
            /\ k8sFetcher[pass] = "list" => containerIDs[pass] = <<>>
            /\ dockerFetcher[pass] = "list" => filtered[pass] = <<>>
            /\ mainPc \in {"wait", "compare"} =>
                  orphans[pass] = <<>> /\ stops = <<>> /\ handed = <<>>
            /\ \A p \in Passes \ {pass} :
                  /\ k8sFetcher[p] \in {"none", "exit"}
                  /\ dockerFetcher[p] \in {"none", "exit"}
                  /\ k8sCollector[p] \in {"none", "exit"}
                  /\ dockerCollector[p] \in {"none", "exit"})
    /\ [][ pass' = pass =>
             \A p \in Passes :
                /\ containerIDs'[p] # containerIDs[p] =>
                      p = pass /\ k8sFetcher[p] = "list"
                /\ filtered'[p] # filtered[p] =>
                      p = pass /\ dockerFetcher[p] = "list"
                /\ kubernetesContainers'[p] # kubernetesContainers[p] =>
                      /\ p = pass /\ k8sFetcher[p] = "send"
                      /\ kubernetesContainers'[p] = containerIDs[p]
                /\ dockerContainers'[p] # dockerContainers[p] =>
                      /\ p = pass /\ dockerFetcher[p] = "send"
                      /\ dockerContainers'[p] = filtered[p]
                /\ orphans'[p] # orphans[p] =>
                      /\ p = pass /\ mainPc = "compare"
                      /\ Range(orphans'[p]) \subseteq Range(filtered[p])
                /\ (notifier[p].pc = "recv" /\ notifier'[p].pc = "publish") =>
                      /\ p = pass
                      /\ notifier'[p].msg = dispatchMessage(modeFlag, orphans[p][idx])
         ]_vars

\* C17 witness: in the second pass both inventories came in, orphans were
\* found and all were handed over.
C17_Witness ==
    /\ pass = 2
    /\ mainPc = "sleep"
    /\ kubernetesContainers[pass] # <<>>
    /\ Len(dockerContainers[pass]) > Len(orphans[pass])
    /\ handed # <<>>

\* C18: in a pass where the pod List failed and ContainerList did not, the
\* orchestrator list is empty, the orphans are the whole filtered runtime
\* inventory, that is every container of the runtime's answer that the
\* whitelist lets through; when the pass is over a message has been handed
\* over for each of them, in order, and in "remove" mode ContainerStop has
\* been called for each of them.
C18_OrchestratorFailureMakesAllOrphans ==
    (pass >= 1 /\ k8sErr[pass] /\ ~dockerErr[pass]) =>
        /\ containerIDs[pass] = <<>>
        /\ Compared =>
              /\ kubernetesContainers[pass] = <<>>
              /\ orphans[pass] = filtered[pass]
              /\ \A c \in Range(containers[pass]) :
                    ~Whitelisted(c) => c \in Range(orphans[pass])
        /\ PassDone =>
              /\ handed = [i \in 1..Len(filtered[pass]) |->
                              dispatchMessage(modeFlag, filtered[pass][i])]
              /\ modeFlag = "remove" =>
                    [i \in 1..Len(stops) |-> stops[i].ID]
                        = [i \in 1..Len(filtered[pass]) |-> filtered[pass][i].ID]
              /\ modeFlag # "remove" => stops = <<>>

\* C18 witness: a pass in "remove" mode is over in which the pod List failed,
\* the runtime reported a whitelisted container and another, and the other
\* was stopped.
C18_Witness ==
    /\ modeFlag = "remove"
    /\ PassDone
    /\ k8sErr[pass]
    /\ ~dockerErr[pass]
    /\ Len(containers[pass]) = 2
    /\ \E c \in Range(containers[pass]) : Whitelisted(c)
    /\ Len(stops) = 1
    /\ Len(handed) = 1

\* C19: when the publication of an event returns, the events the notifier of
\* a pass gives to the recorder are, in order and one each, the messages
\* handed over in that pass, as warning events with the reason
\* "DanglingContainer" on this node; at most the last message handed over is
\* still unpublished, and it is held by the notifier of the pass, which
\* leaves it only by publishing it, and does publish it; in "remove" mode a
\* message is handed over only after the ContainerStop call for its orphan.
C19_EachMessagePublishedOnceInOrder ==
    /\ [](pass >= 1 =>
            /\ Len(events) <= Len(handed)
            /\ \A i \in 1..Len(events) :
                  events[i] = [type |-> "Warning", reason |-> "DanglingContainer",
                               message |-> handed[i], host |-> nodeFlag]
            /\ Len(handed) - Len(events) = IF notifier[pass].pc = "publish" THEN 1 ELSE 0
            /\ notifier[pass].pc = "publish" => notifier[pass].msg = handed[Len(handed)]
            /\ modeFlag = "remove" =>
                  /\ Len(handed) <= Len(stops)
                  /\ \A i \in 1..Len(handed) :
                        handed[i] = Sprintf(StoppedText, orphans[pass][i])
                            /\ stops[i].ID = orphans[pass][i].ID)
    /\ [][ /\ \A p \in Passes :
                (notifier[p].pc = "publish" /\ notifier'[p] # notifier[p]) => SendEvent(p)
           /\ (handed' # handed /\ pass' = pass) =>
                /\ Len(handed') = Len(handed) + 1
                /\ notifier[pass].pc = "recv"
                /\ notifier'[pass].msg = handed'[Len(handed')]
                /\ modeFlag = "remove" => Len(stops) = Len(handed')
           /\ (events' # events /\ pass' = pass) =>
                events' = Append(events, [type |-> "Warning",
                                          reason |-> "DanglingContainer",
                                          message |-> notifier[pass].msg,
                                          host |-> nodeFlag])
         ]_vars
    /\ \A p \in Passes : (notifier[p].pc = "publish") ~> (notifier[p].pc = "recv")

\* C19 witness: in "remove" mode two messages were handed over in the second
\* pass and both have been published.
C19_Witness ==
    /\ modeFlag = "remove"
    /\ pass = 2
    /\ Len(handed) = 2
    /\ Len(events) = 2
    /\ events[1].message # events[2].message

\* The collectors of pass p that have not yet called wg.Done().
Undone(p) ==
    (IF k8sCollector[p] \in {"recv", "done"} THEN 1 ELSE 0)
        + (IF dockerCollector[p] \in {"recv", "done"} THEN 1 ELSE 0)

\* C20: the counter of the WaitGroup is always 0, 1 or 2; it is 0 whenever
\* main is not in wg.Wait; it is the number of collectors of the current pass
\* that have not yet called Done, and no collector of another pass is left
\* to call it; it only changes by going from 0 to 2 when a pass starts and
\* its collectors are made, and by going down by one when one collector of
\* the current pass, which has received, ends.
C20_WaitGroupCountsCollectorsOfThePass ==
    /\ [](/\ wg \in 0..2
          /\ mainPc # "wait" => wg = 0
          /\ pass = 0 => wg = 0
          /\ pass >= 1 => wg = Undone(pass)
          /\ \A p \in Passes \ {pass} : Undone(p) = 0)
    /\ [][ /\ pass' # pass =>
                /\ wg = 0 /\ wg' = 2
                /\ k8sCollector[pass'] = "none" /\ k8sCollector'[pass'] = "recv"
                /\ dockerCollector[pass'] = "none" /\ dockerCollector'[pass'] = "recv"
           /\ (wg' # wg /\ pass' = pass) =>
                /\ mainPc = "wait" /\ mainPc' = "wait"
                /\ wg' = wg - 1
                /\ Undone(pass)' = Undone(pass) - 1
                /\ \/ k8sCollector[pass] = "done" /\ k8sCollector'[pass] = "exit"
                   \/ dockerCollector[pass] = "done" /\ dockerCollector'[pass] = "exit"
           /\ \A p \in Passes :
                /\ (k8sCollector[p] = "done" /\ k8sCollector'[p] # "done") =>
                      wg' = wg - 1 /\ k8sCollector'[p] = "exit"
                /\ (dockerCollector[p] = "done" /\ dockerCollector'[p] # "done") =>
                      wg' = wg - 1 /\ dockerCollector'[p] = "exit"
           /\ (mainPc = "wait" /\ mainPc' # "wait") => wg = 0 /\ Undone(pass) = 0
         ]_vars

\* C20 witness: in the second pass one collector has called Done and the
\* other has not yet received.
C20_Witness ==
    /\ pass = 2
    /\ mainPc = "wait"
    /\ wg = 1
    /\ k8sCollector[pass] = "exit"
    /\ dockerCollector[pass] = "recv"

====
